---- MODULE Spec2Model ----
(***************************************************************************)
(* Model of plume-common/src/activity_pub/mod.rs: the content negotiation  *)
(* guard (ApRequest::from_request), the outbound delivery pipeline         *)
(* (broadcast, broadcast07) and the typed extensions layered over a        *)
(* property bag (ApSignature07, ActorSource, Source, Licensed07,           *)
(* Hashtag07).                                                             *)
(***************************************************************************)
EXTENDS Integers, Sequences, FiniteSets, TLC

VARIABLES
    accept,     \* the request's Accept header: [present, toks]
    negOut,     \* outcome of ApRequest::from_request, "pending" before the call
    negFold,    \* the Outcome the fold ended with, before map_forward
    entry,      \* which entry point was called: "broadcast" or "broadcast07"
    to,         \* the recipients handed to the call (sequence of actors)
    boxes,      \* the deduplicated destination list built by the call
    pc,         \* position of the call
    idx,        \* index of the next destination of the `for inbox in boxes` loop
    skipped,    \* destinations skipped with a warning, with the reason
    spawned,    \* destinations for which rt.spawn was called, in spawn order
    att,        \* per destination: state of its attempt
    posts,      \* per destination: number of POST requests put on the wire
    panicAt,    \* which expect() aborted the call ("none" if none)
    ret,        \* what the call returned to its caller
    logs,       \* per destination: what the attempt logged
    act,        \* the activity handed to the call
    doc,        \* the JSON document after line 139 (serialized, with @context)
    sig,        \* per destination: the request signature computed for it
    req,        \* per destination: the request built for it (headers, body)
    entity,     \* the object wrapped in the ActivityStream being rendered
    resp,       \* what ActivityStream::respond_to returned
    over,       \* a bag an extension is layered over
    bag3,       \* the bag after the extension was written into `over`
    extKind,    \* the extension type of the round trip under test
    bag,        \* the property bag the round trip starts from
    rest,       \* the bag after decompose (try_from_unparsed / extending)
    ext,        \* the decoded extension value
    bag2,       \* the bag after compose (try_into_unparsed / retracting)
    xpc         \* position of the round trip

vars == <<accept, negOut, negFold, entry, to, boxes, pc, idx, skipped, spawned,
          att, posts, panicAt, ret, logs, act, doc, sig, req, entity, resp,
          extKind,
          bag, rest, ext, bag2, xpc, over, bag3>>

negVars == <<accept, negOut, negFold>>
bcVars == <<entry, to, boxes, pc, idx, skipped, spawned, att, posts, panicAt,
            ret, logs, act, doc, sig, req>>
extVars == <<extKind, bag, rest, ext, bag2, xpc, over, bag3>>
renderVars == <<entity, resp>>

----------------------------------------------------------------------------
(* Content negotiation: ApRequest::from_request                            *)

\* Longest Accept header, in tokens.
MaxHeaderLen == 4

Comma == ","
Space == " "
TextHtml == "text/html"

\* ap_accept_header(): the four recognized protocol strings.
ap_accept_header ==
    { "application/ld+json; profile=\"https://w3.org/ns/activitystreams\"",
      "application/ld+json;profile=\"https://w3.org/ns/activitystreams\"",
      "application/activity+json",
      "application/ld+json" }

\* A header is a sequence of tokens: a comma, one whitespace character, or a
\* piece of text without commas and without leading or trailing whitespace.
OtherText == {"application/xml"}
Alphabet == {Comma, Space, TextHtml} \cup ap_accept_header \cup OtherText

SeqsUpTo(S, n) == UNION { [1..k -> S] : k \in 0..n }

\* header.split(','): the pieces between the commas, empty pieces included.
RECURSIVE Split(_)
Split(s) ==
    IF \A i \in 1..Len(s) : s[i] # Comma
    THEN <<s>>
    ELSE LET c == CHOOSE i \in 1..Len(s) :
                      s[i] = Comma /\ \A j \in 1..(i-1) : s[j] # Comma
         IN  <<SubSeq(s, 1, c - 1)>> \o Split(SubSeq(s, c + 1, Len(s)))

\* ct.trim(): leading and trailing whitespace removed.
RECURSIVE Trim(_)
Trim(s) ==
    IF s = <<>> THEN s
    ELSE IF Head(s) = Space THEN Trim(Tail(s))
    ELSE IF s[Len(s)] = Space THEN Trim(SubSeq(s, 1, Len(s) - 1))
    ELSE s

Success == [k |-> "Success", b |-> FALSE]
Forward(b) == [k |-> "Forward", b |-> b]

\* A match that takes any range starting with text/html for text/html.
ClassifyLoose(ct) ==
    IF Len(ct) = 1 /\ ct[1] \in ap_accept_header THEN Success
    ELSE IF ct # <<>> /\ ct[1] = TextHtml THEN Forward(TRUE)
    ELSE Forward(FALSE)

\* The match of lines 101-109: a trimmed range to an Outcome.
Classify(ct) ==
    IF Len(ct) = 1 /\ ct[1] \in ap_accept_header THEN Success
    ELSE IF ct = <<TextHtml>> THEN Forward(TRUE)
    ELSE Forward(FALSE)

\* A fold step that lets every later range replace the outcome so far.
FoldStepLast(out, ct) == ct

\* The closure of the fold, lines 110-116:
\* out.forwarded().unwrap_or_else(|| out.is_success()) keeps `out`.
FoldStep(out, ct) ==
    IF (IF out.k = "Forward" THEN out.b ELSE out.k = "Success")
    THEN out
    ELSE ct

RECURSIVE Fold(_, _)
Fold(out, cts) ==
    IF cts = <<>> THEN out
    ELSE Fold(FoldStep(out, Classify(Trim(Head(cts)))), Tail(cts))

\* A map_forward that keeps the bool.
MapForwardKeep(out) ==
    IF out.k = "Success" THEN "Success"
    ELSE IF out.b THEN "Forward(true)" ELSE "Forward(false)"

\* .map_forward(|_| ()): the bool of a Forward is replaced by the unit value.
MapForward(out) == IF out.k = "Success" THEN "Success" ELSE "Forward(())"

\* from_request as a whole, lines 94-120.
from_request(h) ==
    IF h.present
    THEN MapForward(Fold(Forward(FALSE), Split(h.toks)))
    ELSE "Forward(())"

Headers ==
    { [present |-> FALSE, toks |-> <<>>] } \cup
    { [present |-> TRUE, toks |-> t] : t \in SeqsUpTo(Alphabet, MaxHeaderLen) }

\* The value of the fold of lines 99-116; there is none without a header.
NoFold == [k |-> "none", b |-> FALSE]
FoldOf(h) == IF h.present THEN Fold(Forward(FALSE), Split(h.toks)) ELSE NoFold

FromRequest ==
    /\ negOut = "pending"
    /\ negOut' = from_request(accept)
    /\ negFold' = FoldOf(accept)
    /\ UNCHANGED <<accept, bcVars, extVars, renderVars>>

\* The trimmed media ranges of the header, in header order.
Ranges(h) == [i \in 1..Len(Split(h.toks)) |-> Trim(Split(h.toks)[i])]
IsProtocolRange(r) == Len(r) = 1 /\ r[1] \in ap_accept_header
IsHtmlRange(r) == r = <<TextHtml>>

----------------------------------------------------------------------------
(* JSON documents and the context envelope                                 *)

\* JSON values: null, a string, a number, or an object whose fields hold
\* scalars.  An object is a set of <<name, value>> pairs with distinct names.
JNull == [t |-> "null", s |-> "", o |-> {}]
JStr(x) == [t |-> "str", s |-> x, o |-> {}]
JNum == [t |-> "num", s |-> "1", o |-> {}]
JObj(fields) == [t |-> "obj", s |-> "", o |-> fields]

JArr(items) == [t |-> "arr", s |-> "", o |-> items]

CONTEXT_URL == "https://www.w3.org/ns/activitystreams"

\* context(), lines 45-67: two URLs and the alias map.
context ==
    JArr({ <<"0", JStr(CONTEXT_URL)>>,
           <<"1", JStr("https://w3id.org/security/v1")>>,
           <<"2", JObj({
               <<"manuallyApprovesFollowers", JStr("as:manuallyApprovesFollowers")>>,
               <<"sensitive", JStr("as:sensitive")>>,
               <<"movedTo", JStr("as:movedTo")>>,
               <<"Hashtag", JStr("as:Hashtag")>>,
               <<"ostatus", JStr("http://ostatus.org#")>>,
               <<"atomUri", JStr("ostatus:atomUri")>>,
               <<"inReplyToAtomUri", JStr("ostatus:inReplyToAtomUri")>>,
               <<"conversation", JStr("ostatus:conversation")>>,
               <<"toot", JStr("http://joinmastodon.org/ns#")>>,
               <<"Emoji", JStr("toot:Emoji")>>,
               <<"focalPoint", JObj({ <<"@container", JStr("@list")>>,
                                      <<"@id", JStr("toot:focalPoint")>> })>>,
               <<"featured", JStr("toot:featured")>> })>> })

NoDoc == [k \in {} |-> JNull]

\* An object to serialize: its properties, and whether its Serialize
\* implementation succeeds.
Serializable(props) == [ok |-> TRUE, props |-> props]
Unserializable == [ok |-> FALSE, props |-> NoDoc]

\* serde_json::to_value(x): Ok(the object's properties) or Err.
to_value(x) == IF x.ok THEN [ok |-> TRUE, json |-> x.props]
               ELSE [ok |-> FALSE, json |-> NoDoc]

NoBody == [present |-> FALSE, json |-> NoDoc]

\* serde_json::to_string(&json): the text of the whole document.
to_string(json) == [present |-> TRUE, json |-> json]

\* An assignment that leaves a context the document already has.
KeepContext(json) ==
    [k \in DOMAIN json \cup {"@context"} |->
        IF k \in DOMAIN json THEN json[k] ELSE context]

\* json["@context"] = context(): the key is set, replacing what was there
\* (lines 80, 139, 215).
WithContext(json) ==
    [k \in DOMAIN json \cup {"@context"} |->
        IF k = "@context" THEN context ELSE json[k]]

OwnContext == JStr("https://example.com/context")

\* The activities handed to broadcast: one that does not serialize, one
\* with and one without a context of its own.
ActWithContext ==
    Serializable([k \in {"type", "@context"} |->
                     IF k = "type" THEN JStr("Create") ELSE OwnContext])
ActWithoutContext == Serializable([k \in {"type"} |-> JStr("Create")])
Acts == { Unserializable, ActWithContext, ActWithoutContext }

----------------------------------------------------------------------------
(* Outbound delivery: broadcast and broadcast07                            *)

\* Longest recipient list handed to a call.
MaxRecipients == 3

NoUrl == "None"

\* Delivery targets (inbox::AsActor): is_local(), get_inbox_url(),
\* get_shared_inbox_url().  Two remote actors of one instance share its shared
\* inbox, one remote actor has none, one actor is local, and three remote
\* actors have an inbox that is no URL, has no host, or has a host that is no
\* header value.
Actors ==
    { [local |-> FALSE, inbox |-> "https://a.example/u1/inbox",
       shared |-> "https://a.example/inbox"],
      [local |-> FALSE, inbox |-> "https://a.example/u2/inbox",
       shared |-> "https://a.example/inbox"],
      [local |-> FALSE, inbox |-> "https://b.example/u3/inbox?x=1",
       shared |-> NoUrl],
      [local |-> TRUE, inbox |-> "https://here.example/u4/inbox",
       shared |-> "https://here.example/inbox"],
      [local |-> FALSE, inbox |-> "not a url", shared |-> NoUrl],
      [local |-> FALSE, inbox |-> "mailto:u6@c.example", shared |-> NoUrl],
      [local |-> FALSE, inbox |-> "https://d\n.example/u7/inbox",
       shared |-> NoUrl] }

AllUrls == { a.inbox : a \in Actors } \cup ({ a.shared : a \in Actors } \ {NoUrl})

\* Url::parse(&inbox), url.host_str(), url.path(), url.query().
UrlParse(u) ==
    CASE u = "https://a.example/u1/inbox" ->
            [ok |-> TRUE, host |-> "a.example", path |-> "/u1/inbox", query |-> NoUrl]
      [] u = "https://a.example/u2/inbox" ->
            [ok |-> TRUE, host |-> "a.example", path |-> "/u2/inbox", query |-> NoUrl]
      [] u = "https://a.example/inbox" ->
            [ok |-> TRUE, host |-> "a.example", path |-> "/inbox", query |-> NoUrl]
      [] u = "https://b.example/u3/inbox?x=1" ->
            [ok |-> TRUE, host |-> "b.example", path |-> "/u3/inbox", query |-> "x=1"]
      [] u = "https://here.example/u4/inbox" ->
            [ok |-> TRUE, host |-> "here.example", path |-> "/u4/inbox", query |-> NoUrl]
      [] u = "https://here.example/inbox" ->
            [ok |-> TRUE, host |-> "here.example", path |-> "/inbox", query |-> NoUrl]
      [] u = "mailto:u6@c.example" ->
            [ok |-> TRUE, host |-> NoUrl, path |-> "u6@c.example", query |-> NoUrl]
      [] u = "https://d\n.example/u7/inbox" ->
            [ok |-> TRUE, host |-> "d\n.example", path |-> "/u7/inbox", query |-> NoUrl]
      [] OTHER ->
            [ok |-> FALSE, host |-> NoUrl, path |-> NoUrl, query |-> NoUrl]

\* HeaderValue::from_str(host).is_ok(): visible ASCII only.
HeaderValueOk(h) == h \notin {"d\n.example"}

\* Why the loop body skips a destination with `continue`, "" if it does not
\* (lines 149-163).
SkipReason(u) ==
    IF ~UrlParse(u).ok THEN "invalid URL"
    ELSE IF UrlParse(u).host = NoUrl THEN "no host"
    ELSE IF ~HeaderValueOk(UrlParse(u).host) THEN "invalid header value"
    ELSE ""

WellFormed(u) == SkipReason(u) = ""

\* A mapping that always takes the actor's own inbox.
OwnInbox(a) == a.inbox

\* u.get_shared_inbox_url().unwrap_or_else(|| u.get_inbox_url())
Destination(a) == IF a.shared # NoUrl THEN a.shared ELSE a.inbox

\* array_tool's Vec::unique(): the first occurrence of each value, in order.
RECURSIVE Unique(_)
Unique(s) ==
    IF s = <<>> THEN s
    ELSE LET init == Unique(SubSeq(s, 1, Len(s) - 1))
             last == s[Len(s)]
         IN  IF \E i \in 1..Len(init) : init[i] = last
             THEN init
             ELSE Append(init, last)

\* A list that keeps every occurrence.
KeepAll(s) == s

\* The deduplication applied to the collected URLs (lines 135-136, 211-212).
Dedup(s) == Unique(s)

\* A filter that lets every recipient through.
KeepsAnyone(a) == TRUE

\* The closure of .filter(|u| !u.is_local()), line 130.
NotLocal(a) == ~a.local

MapDestination(s) == [i \in 1..Len(s) |-> Destination(s[i])]

\* `boxes` of broadcast, lines 128-136.
BoxesOf(recipients) == Dedup(MapDestination(SelectSeq(recipients, NotLocal)))

\* `boxes` of broadcast07, lines 205-212: no is_local() filter.
BoxesOf07(recipients) == Dedup(MapDestination(recipients))

Range(s) == { s[i] : i \in 1..Len(s) }

Settled == {"done", "failed"}

\* The call starts: `boxes` is built from `to`.
Resolve ==
    /\ pc = "start"
    /\ entry = "broadcast"
    /\ boxes' = BoxesOf(to)
    /\ pc' = "serialize"
    /\ UNCHANGED <<entry, to, idx, skipped, spawned, att, posts, panicAt, ret,
                   logs, negVars, extVars, renderVars, act, doc, sig, req>>

Resolve07 ==
    /\ pc = "start"
    /\ entry = "broadcast07"
    /\ boxes' = BoxesOf07(to)
    /\ pc' = "serialize"
    /\ UNCHANGED <<entry, to, idx, skipped, spawned, att, posts, panicAt, ret,
                   logs, negVars, extVars, renderVars, act, doc, sig, req>>

\* What a panic leaves behind: the runtime is dropped with the futures that
\* were spawned on it and never polled.
DropQueued(a) == [u \in AllUrls |-> IF a[u] = "queued" THEN "dropped" ELSE a[u]]

Panic(where) ==
    /\ pc' = "panicked"
    /\ panicAt' = where
    /\ att' = DropQueued(att)
    /\ UNCHANGED <<entry, to, boxes, idx, skipped, spawned, posts, ret, logs,
                   negVars, extVars, renderVars, act, doc, sig, req>>

\* serde_json::to_value(act).expect(..), then act["@context"] = context().
Serialize ==
    /\ pc = "serialize"
    /\ IF to_value(act).ok
       THEN /\ pc' = "sign"
            /\ doc' = WithContext(to_value(act).json)
            /\ UNCHANGED <<entry, to, boxes, idx, skipped, spawned, att,
                           posts, panicAt, ret, logs, negVars, extVars,
                           renderVars, act, sig, req>>
       ELSE Panic("serialization")

\* act.sign(sender).expect(..), then the runtime is created.
Sign ==
    /\ pc = "sign"
    /\ \E ok \in BOOLEAN :
         IF ok
         THEN /\ pc' = "loop"
              /\ idx' = 1
              /\ UNCHANGED <<entry, to, boxes, skipped, spawned, att, posts,
                             panicAt, ret, logs, negVars, extVars, renderVars, act, doc, sig, req>>
         ELSE Panic("signature")

\* Whether the loop body for `u` goes past its three `continue`s.
PassesChecks(u) == WellFormed(u)

\* A skip that leaves the loop.
AfterSkipBreak(i) == Len(boxes) + 1

\* `continue`: the loop goes on with the next destination (lines 152, 157, 162).
AfterSkip(i) == i + 1

\* One iteration of `for inbox in boxes` that ends in `continue`.
LoopSkip ==
    /\ pc = "loop"
    /\ idx <= Len(boxes)
    /\ ~PassesChecks(boxes[idx])
    /\ skipped' = skipped \cup {<<boxes[idx], SkipReason(boxes[idx])>>}
    /\ idx' = AfterSkip(idx)
    /\ UNCHANGED <<entry, to, boxes, pc, spawned, att, posts, panicAt, ret,
                   logs, negVars, extVars, renderVars, act, doc, sig, req>>

NoSig == [signed |-> FALSE, method |-> "", path |-> "", query |-> "", host |-> ""]

\* A request that is handed over without a signature.
Unsigned(u) == NoSig

\* request::signature(sender, &headers, ("post", url.path(), url.query())):
\* what the Signature header of the request to `u` covers (line 179).
RequestSignature(u) ==
    [signed |-> TRUE, method |-> "post", path |-> UrlParse(u).path,
     query |-> UrlParse(u).query, host |-> UrlParse(u).host]

\* act.sign(sender) (lines 140-142): the signed document made of the
\* document and the sender's signature over it.
SignedDocument(d) == [document |-> d, signedBy |-> "sender"]

\* The body texts a call can come to send: the signed documents of the
\* activities that serialize.
BodyTexts ==
    { to_string(SignedDocument(WithContext(to_value(a).json))) :
         a \in { x \in Acts : x.ok } }

\* A hash: a short value, a different one for each of the body texts.
HashOf ==
    CHOOSE f \in [BodyTexts -> 1..Cardinality(BodyTexts)] :
       \A s, t \in BodyTexts : s # t => f[s] # f[t]

\* request::Digest::digest(&body): the header value holding the hash of the
\* text.
Digest(text) ==
    [alg |-> "SHA-256", hash |-> IF text \in BodyTexts THEN HashOf[text] ELSE 0]

\* Headers that every attempt of the call is given alike.
SharedHeaders(u, body) ==
    [Host |-> "a.example", Digest |-> Digest(body)]

\* request::headers() with Host and Digest inserted (lines 148, 164-165).
RequestHeaders(u, body) ==
    [Host |-> UrlParse(u).host, Digest |-> Digest(body)]

\* request::signature(sender, &headers, ("post", url.path(), url.query())):
\* the Signature header, made over the request target and the headers given.
Signature(headers, method, path, query) ==
    [over |-> <<method, path, query, headers.Host, headers.Digest>>]

NoRequest ==
    [built |-> FALSE, body |-> NoBody,
     headers |-> [Host |-> NoUrl, Digest |-> [alg |-> "", hash |-> 0]],
     signature |-> [over |-> <<>>]]

\* The request one loop iteration builds for `u`: body = signed.to_string()
\* (line 147), .headers(headers.clone()), .header("Signature", ..), .body(body)
\* (lines 175-182).
BuildRequest(u, d) ==
    LET body == to_string(SignedDocument(d))
        headers == RequestHeaders(u, body)
    IN  [built |-> TRUE, body |-> body, headers |-> headers,
         signature |-> Signature(headers, "post", UrlParse(u).path,
                                 UrlParse(u).query)]

\* One iteration that builds the client, signs the request and spawns the
\* future; nothing is polled before rt.run().
LoopSpawn ==
    /\ pc = "loop"
    /\ idx <= Len(boxes)
    /\ PassesChecks(boxes[idx])
    /\ spawned' = Append(spawned, boxes[idx])
    /\ att' = [att EXCEPT ![boxes[idx]] = "queued"]
    /\ sig' = [sig EXCEPT ![boxes[idx]] = RequestSignature(boxes[idx])]
    /\ req' = [req EXCEPT ![boxes[idx]] = BuildRequest(boxes[idx], doc)]
    /\ idx' = idx + 1
    /\ UNCHANGED <<entry, to, boxes, pc, skipped, posts, panicAt, ret, logs,
                   negVars, extVars, renderVars, act, doc>>

\* .build().expect("Can't build client")
LoopClientPanic ==
    /\ pc = "loop"
    /\ idx <= Len(boxes)
    /\ PassesChecks(boxes[idx])
    /\ Panic("client")

\* request::signature(..).expect("activity_pub::broadcast: request signature error")
LoopSignaturePanic ==
    /\ pc = "loop"
    /\ idx <= Len(boxes)
    /\ PassesChecks(boxes[idx])
    /\ Panic("request signature")

\* The loop is over: rt.run() starts driving the spawned futures.
LoopEnd ==
    /\ pc = "loop"
    /\ idx > Len(boxes)
    /\ pc' = "run"
    /\ UNCHANGED <<entry, to, boxes, idx, skipped, spawned, att, posts,
                   panicAt, ret, logs, negVars, extVars, renderVars, act, doc, sig, req>>

\* A run() that returns as soon as one future has resolved.
CanReturnEarly == \E i \in 1..Len(spawned) : att[spawned[i]] \in Settled

\* Every spawned future has resolved: rt.run() returns when the runtime has
\* no future left (line 196).
CanReturn == \A i \in 1..Len(spawned) : att[spawned[i]] \in Settled

\* A failed attempt that is queued again.
AttRetried(a, u) == [a EXCEPT ![u] = "queued"]

\* A failed attempt that takes the futures still in flight down with it.
AttCancelAll(a, u) == [v \in AllUrls |-> IF a[v] \in {"none", "done"} THEN a[v] ELSE "failed"]

\* .map_err(|e| warn!(..)): the error is logged and the future resolves; no
\* other future is touched (line 193).
AttAfterError(a, u) == [a EXCEPT ![u] = "failed"]

\* The future of `u` is polled for the first time: .send() puts the POST on
\* the wire (lines 175-183).
AttemptSend(u) ==
    /\ pc = "run"
    /\ att[u] = "queued"
    /\ att' = [att EXCEPT ![u] = "sent"]
    /\ posts' = [posts EXCEPT ![u] = @ + 1]
    /\ UNCHANGED <<entry, to, boxes, pc, idx, skipped, spawned, panicAt, ret,
                   logs, negVars, extVars, renderVars, act, doc, sig, req>>

\* The connect timeout of 5 seconds expires or the transport fails.
AttemptError(u) ==
    /\ pc = "run"
    /\ att[u] = "sent"
    /\ \E e \in {"connect timeout", "transport error"} :
         logs' = [logs EXCEPT ![u] = Append(@, "warn: " \o e)]
    /\ att' = AttAfterError(att, u)
    /\ UNCHANGED <<entry, to, boxes, pc, idx, skipped, spawned, posts,
                   panicAt, ret, negVars, extVars, renderVars, act, doc, sig, req>>

\* The response head arrives: the and_then closure logs the status
\* (lines 184-191).
AttemptResponse(u) ==
    /\ pc = "run"
    /\ att[u] = "sent"
    /\ \E success \in BOOLEAN :
         logs' = [logs EXCEPT ![u] =
                     Append(@, IF success THEN "debug: sent" ELSE "warn: status")]
    /\ att' = [att EXCEPT ![u] = "responded"]
    /\ UNCHANGED <<entry, to, boxes, pc, idx, skipped, spawned, posts,
                   panicAt, ret, negVars, extVars, renderVars, act, doc, sig, req>>

\* r.into_body().concat2() completes and .map logs the body (line 192).
AttemptBody(u) ==
    /\ pc = "run"
    /\ att[u] = "responded"
    /\ logs' = [logs EXCEPT ![u] = Append(@, "debug: response")]
    /\ att' = [att EXCEPT ![u] = "done"]
    /\ UNCHANGED <<entry, to, boxes, pc, idx, skipped, spawned, posts,
                   panicAt, ret, negVars, extVars, renderVars, act, doc, sig, req>>

\* Reading the body fails: .map_err logs it (line 193).
AttemptBodyError(u) ==
    /\ pc = "run"
    /\ att[u] = "responded"
    /\ logs' = [logs EXCEPT ![u] = Append(@, "warn: transport error")]
    /\ att' = AttAfterError(att, u)
    /\ UNCHANGED <<entry, to, boxes, pc, idx, skipped, spawned, posts,
                   panicAt, ret, negVars, extVars, renderVars, act, doc, sig, req>>

\* The states of an attempt in which the peer has accepted the connection:
\* the client is built with connect_timeout only (line 172), so nothing bounds
\* the wait for the response head or for the rest of the body.
CanStall(st) == st \in {"sent", "responded"}

\* The peer stops answering: the future stays pending for good.
AttemptStall(u) ==
    /\ pc = "run"
    /\ CanStall(att[u])
    /\ att' = [att EXCEPT ![u] = "stalled"]
    /\ UNCHANGED <<entry, to, boxes, pc, idx, skipped, spawned, posts,
                   panicAt, ret, logs, negVars, extVars, renderVars, act, doc,
                   sig, req>>

\* rt.run().unwrap() returns and so does the call, with the unit value.
Return ==
    /\ pc = "run"
    /\ CanReturn
    /\ pc' = "returned"
    /\ ret' = "()"
    /\ UNCHANGED <<entry, to, boxes, idx, skipped, spawned, att, posts,
                   panicAt, logs, negVars, extVars, renderVars, act, doc, sig, req>>

----------------------------------------------------------------------------
(* Typed extensions over a property bag                                    *)

Iri == "https://example.com/pubkey"
Plain == "CC-0"

\* "...".parse::<IriString>() succeeds.
IsIri(x) == x = Iri

Has(o, n) == \E p \in o : p[1] = n
Get(o, n) == (CHOOSE p \in o : p[1] = n)[2]
HasStr(o, n) == Has(o, n) /\ Get(o, n).t = "str"
HasIri(o, n) == HasStr(o, n) /\ IsIri(Get(o, n).s)

\* Decoded values: [ty, some, s, f], f the struct's fields under their Rust
\* names; some = FALSE is Option::None.
Typed(ty, x, f) == [ty |-> ty, some |-> TRUE, s |-> x, f |-> f]
None == [ty |-> "None", some |-> FALSE, s |-> "", f |-> {}]
Failure == [ok |-> FALSE, val |-> None]
Decoded(val) == [ok |-> TRUE, val |-> val]

\* serde_json::from_value::<T>(v) for the field types of the extensions.
\* Structs have no deny_unknown_fields: fields they do not declare are ignored.
FromValueBase(ty, v) ==
    CASE ty = "String" ->
            IF v.t = "str" THEN Decoded(Typed(ty, v.s, {})) ELSE Failure
      [] ty = "IriString" ->
            IF v.t = "str" /\ IsIri(v.s) THEN Decoded(Typed(ty, v.s, {})) ELSE Failure
      [] ty = "AnyString" ->
            IF v.t = "str" THEN Decoded(Typed(ty, v.s, {}))
            ELSE IF v.t = "obj" /\ HasStr(v.o, "@value") /\ HasStr(v.o, "@language")
            THEN Decoded(Typed(ty, "", { <<"value", Get(v.o, "@value").s>>,
                                         <<"language", Get(v.o, "@language").s>> }))
            ELSE Failure
      [] ty = "PublicKey07" ->
            IF v.t = "obj" /\ HasIri(v.o, "id") /\ HasIri(v.o, "owner")
                           /\ HasStr(v.o, "publicKeyPem")
            THEN Decoded(Typed(ty, "", { <<"id", Get(v.o, "id").s>>,
                                         <<"owner", Get(v.o, "owner").s>>,
                                         <<"public_key_pem", Get(v.o, "publicKeyPem").s>> }))
            ELSE Failure
      [] ty = "Source" ->
            IF v.t = "obj" /\ HasStr(v.o, "mediaType") /\ HasStr(v.o, "content")
            THEN Decoded(Typed(ty, "", { <<"media_type", Get(v.o, "mediaType").s>>,
                                         <<"content", Get(v.o, "content").s>> }))
            ELSE Failure

\* Option<T>: null decodes to None, anything else as T.
FromValue(opt, ty, v) ==
    IF opt /\ v.t = "null" THEN Decoded(None) ELSE FromValueBase(ty, v)

\* #[serde(rename_all = "camelCase")] and the @-names of a language string.
JsonName(n) ==
    CASE n = "public_key_pem" -> "publicKeyPem"
      [] n = "media_type" -> "mediaType"
      [] n = "value" -> "@value"
      [] n = "language" -> "@language"
      [] OTHER -> n

\* serde_json::to_value(x).
ToValue(x) ==
    IF ~x.some THEN JNull
    ELSE IF x.f = {} THEN JStr(x.s)
    ELSE JObj({ <<JsonName(p[1]), JStr(p[2])>> : p \in x.f })

ExtKinds == {"ApSignature07", "ActorSource", "Source", "Licensed07", "Hashtag07"}

\* The keys an extension claims, in the order its code removes and inserts
\* them, with the type of the field each is decoded into.
Claims(kind) ==
    CASE kind = "ApSignature07" ->
            << [key |-> "publicKey", opt |-> FALSE, ty |-> "PublicKey07"] >>
      [] kind = "ActorSource" ->
            << [key |-> "source", opt |-> FALSE, ty |-> "Source"] >>
      [] kind = "Source" ->
            << [key |-> "content", opt |-> FALSE, ty |-> "String"],
               [key |-> "mediaType", opt |-> FALSE, ty |-> "String"] >>
      [] kind = "Licensed07" ->
            << [key |-> "license", opt |-> FALSE, ty |-> "String"] >>
      [] kind = "Hashtag07" ->
            << [key |-> "href", opt |-> TRUE, ty |-> "IriString"],
               [key |-> "name", opt |-> TRUE, ty |-> "AnyString"] >>

ClaimedKeys(kind) == { Claims(kind)[i].key : i \in 1..Len(Claims(kind)) }

\* A remove that reads the value and leaves the key in the map.
WithoutNothing(b, key) == b

\* Unparsed::remove(key): the value is taken out of the map, null if absent.
Taken(b, key) == IF key \in DOMAIN b THEN b[key] ELSE JNull
Without(b, key) == [k \in DOMAIN b \ {key} |-> b[k]]

\* An insert that stores the value one level down, under the key "ext".
PutNested(b, key, v) ==
    [k \in DOMAIN b \cup {"ext"} |-> IF k = "ext" THEN JObj({<<key, v>>}) ELSE b[k]]

\* An insert that also stores null.
PutAlways(b, key, v) == [k \in DOMAIN b \cup {key} |-> IF k = key THEN v ELSE b[k]]

\* UnparsedMutExt::insert(key, value): the serialized value is stored under
\* the key, replacing what was there, unless it is null.
Put(b, key, v) ==
    IF v.t = "null" THEN b
    ELSE [k \in DOMAIN b \cup {key} |-> IF k = key THEN v ELSE b[k]]

\* try_from_unparsed / Hashtag07::extending: remove(key)? for each claimed
\* key in turn; the first failure returns the error.
RECURSIVE DecomposeFrom(_, _, _, _)
DecomposeFrom(cl, i, b, fields) ==
    IF i > Len(cl) THEN [ok |-> TRUE, rest |-> b, ext |-> fields]
    ELSE LET d == FromValue(cl[i].opt, cl[i].ty, Taken(b, cl[i].key))
         IN  IF ~d.ok
             THEN [ok |-> FALSE, rest |-> Without(b, cl[i].key), ext |-> fields]
             ELSE DecomposeFrom(cl, i + 1, Without(b, cl[i].key),
                                fields \cup {<<cl[i].key, d.val>>})

decompose(kind, b) == DecomposeFrom(Claims(kind), 1, b, {})

\* try_into_unparsed / Hashtag07::retracting: insert(key, field)? for each
\* claimed key in turn.
RECURSIVE ComposeFrom(_, _, _, _)
ComposeFrom(cl, i, b, fields) ==
    IF i > Len(cl) THEN b
    ELSE ComposeFrom(cl, i + 1, Put(b, cl[i].key, ToValue(Get(fields, cl[i].key))),
                     fields)

compose(kind, fields, b) == ComposeFrom(Claims(kind), 1, b, fields)

\* The values a key of a bag may hold: scalars, well-shaped objects, objects
\* with a field their type does not declare, and an object lacking a field.
PublicKeyFields ==
    { <<"id", JStr(Iri)>>, <<"owner", JStr(Iri)>>, <<"publicKeyPem", JStr(Plain)>> }
SourceFields == { <<"mediaType", JStr(Plain)>>, <<"content", JStr(Plain)>> }
LangFields == { <<"@value", JStr(Plain)>>, <<"@language", JStr(Plain)>> }
Extra == <<"extra", JNum>>

Values ==
    { JNull, JStr(Plain), JStr(Iri), JNum,
      JObj(PublicKeyFields), JObj(PublicKeyFields \cup {Extra}),
      JObj(PublicKeyFields \ {<<"owner", JStr(Iri)>>}),
      JObj(SourceFields), JObj(SourceFields \cup {Extra}),
      JObj(LangFields) }

UnclaimedKeys == {"type", "summary"}
UnclaimedValues == { JNull, JStr(Plain), JObj({Extra}) }

EmptyBag == [k \in {} |-> JNull]

Bags(kind) ==
    UNION { { b \in [K -> Values] :
                 \A k \in K \cap UnclaimedKeys : b[k] \in UnclaimedValues } :
            K \in SUBSET (ClaimedKeys(kind) \cup UnclaimedKeys) }

\* decompose: try_from_unparsed (lines 336-340, 360-364, 529-534, 564-568)
\* and Hashtag07::extending (lines 415-420).
Decompose ==
    /\ xpc = "start"
    /\ LET d == decompose(extKind, bag)
       IN  /\ rest' = d.rest
           /\ ext' = d.ext
           /\ xpc' = IF d.ok THEN "decoded" ELSE "error"
    /\ UNCHANGED <<extKind, bag, bag2, over, bag3, negVars, bcVars, renderVars>>

\* compose: try_into_unparsed (lines 342-345, 366-369, 536-540, 570-573)
\* and Hashtag07::retracting (lines 422-432).
Compose ==
    /\ xpc = "decoded"
    /\ bag2' = compose(extKind, ext, rest)
    /\ xpc' = "composed"
    /\ UNCHANGED <<extKind, bag, rest, ext, over, bag3, negVars, bcVars,
                   renderVars>>

\* The bags an extension is written into while they hold its keys: the bag
\* it was decoded from, and one that holds other values under its keys.
LayerBases(kind, b) == { b, [k \in ClaimedKeys(kind) |-> JStr("taken")] }

\* try_into_unparsed / retracting on a bag that may already hold the keys
\* (lines 342-345, 366-369, 429-431, 536-540, 570-573): every insert returns
\* Ok, so does the call.
Layer ==
    /\ xpc = "decoded"
    /\ \E b \in LayerBases(extKind, bag) :
          /\ over' = b
          /\ bag3' = compose(extKind, ext, b)
    /\ xpc' = "layered"
    /\ UNCHANGED <<extKind, bag, rest, ext, bag2, negVars, bcVars, renderVars>>

----------------------------------------------------------------------------
(* Rendering: ActivityStream::respond_to                                   *)

NoResponse == [ok |-> FALSE, status |-> "none", ctype |-> "", body |-> NoBody]

\* An error that still carries the part of the document rendered so far.
PartialResponse ==
    [ok |-> FALSE, status |-> "InternalServerError", ctype |-> "",
     body |-> to_string(NoDoc)]

\* Err(Status::InternalServerError), line 79.
ErrorResponse ==
    [ok |-> FALSE, status |-> "InternalServerError", ctype |-> "", body |-> NoBody]

\* respond_to, lines 78-86.
respond_to(x) ==
    IF ~to_value(x).ok THEN ErrorResponse
    ELSE [ok |-> TRUE, status |-> "Ok",
          ctype |-> "application/activity+json",
          body |-> to_string(WithContext(to_value(x).json))]

EntityKeys == {"@context", "type", "id", "summary"}
EntityValues == { JNull, JStr(Plain), OwnContext, context }

Entities ==
    { Unserializable } \cup
    { Serializable(b) : b \in UNION { [K -> EntityValues] : K \in SUBSET EntityKeys } }

RespondTo ==
    /\ resp = NoResponse
    /\ resp' = respond_to(entity)
    /\ UNCHANGED <<entity, negVars, bcVars, extVars>>

----------------------------------------------------------------------------
(* Specifications                                                          *)

NegIdle ==
    /\ accept = [present |-> FALSE, toks |-> <<>>]
    /\ negOut = "idle"
    /\ negFold = NoFold

RenderIdle == entity = Unserializable /\ resp = ErrorResponse

BcIdle ==
    /\ entry = "none"
    /\ to = <<>>
    /\ boxes = <<>>
    /\ pc = "idle"
    /\ idx = 0
    /\ skipped = {}
    /\ spawned = <<>>
    /\ att = [u \in AllUrls |-> "none"]
    /\ posts = [u \in AllUrls |-> 0]
    /\ panicAt = "none"
    /\ ret = "none"
    /\ logs = [u \in AllUrls |-> <<>>]
    /\ act = Unserializable
    /\ doc = NoDoc
    /\ sig = [u \in AllUrls |-> NoSig]
    /\ req = [u \in AllUrls |-> NoRequest]

ExtIdle ==
    /\ extKind = "none"
    /\ bag = EmptyBag
    /\ rest = EmptyBag
    /\ ext = {}
    /\ bag2 = EmptyBag
    /\ xpc = "idle"
    /\ over = EmptyBag
    /\ bag3 = EmptyBag

\* Longest recipient list of the calls followed to their end under fairness,
\* and of the calls whose document is looked at.
MaxLiveRecipients == 2
MaxOutboundRecipients == 1

\* A call of broadcast or broadcast07 on a recipient list of at most n actors
\* with one of the given activities.
Called(n, acts) ==
    /\ entry \in {"broadcast", "broadcast07"}
    /\ to \in SeqsUpTo(Actors, n)
    /\ boxes = <<>>
    /\ pc = "start"
    /\ idx = 0
    /\ skipped = {}
    /\ spawned = <<>>
    /\ att = [u \in AllUrls |-> "none"]
    /\ posts = [u \in AllUrls |-> 0]
    /\ panicAt = "none"
    /\ ret = "none"
    /\ logs = [u \in AllUrls |-> <<>>]
    /\ act \in acts
    /\ doc = NoDoc
    /\ sig = [u \in AllUrls |-> NoSig]
    /\ req = [u \in AllUrls |-> NoRequest]
    /\ NegIdle
    /\ ExtIdle
    /\ RenderIdle

\* A call of broadcast or broadcast07 on any recipient list.
Init == Called(MaxRecipients, {Unserializable, ActWithContext})

Next ==
    \/ Resolve
    \/ Resolve07
    \/ Serialize
    \/ Sign
    \/ LoopSkip
    \/ LoopSpawn
    \/ LoopClientPanic
    \/ LoopSignaturePanic
    \/ LoopEnd
    \/ \E u \in AllUrls : AttemptSend(u)
    \/ \E u \in AllUrls : AttemptError(u)
    \/ \E u \in AllUrls : AttemptResponse(u)
    \/ \E u \in AllUrls : AttemptBody(u)
    \/ \E u \in AllUrls : AttemptBodyError(u)
    \/ Return

Spec == Init /\ [][Next]_vars

\* A request with any Accept header, or none.
InitNegotiation ==
    /\ accept \in Headers
    /\ negOut = "pending"
    /\ negFold = NoFold
    /\ BcIdle
    /\ ExtIdle
    /\ RenderIdle

NextNegotiation == FromRequest

SpecNegotiation == InitNegotiation /\ [][NextNegotiation]_vars

\* A decode/encode cycle of any extension type over any bag.
InitExtension ==
    /\ extKind \in ExtKinds
    /\ bag \in Bags(extKind)
    /\ rest = EmptyBag
    /\ ext = {}
    /\ bag2 = EmptyBag
    /\ xpc = "start"
    /\ over = EmptyBag
    /\ bag3 = EmptyBag
    /\ NegIdle
    /\ BcIdle
    /\ RenderIdle

NextExtension == Decompose \/ Compose \/ Layer

SpecExtension == InitExtension /\ [][NextExtension]_vars

\* An ActivityStream of any entity is rendered.
InitRender ==
    /\ entity \in Entities
    /\ resp = NoResponse
    /\ NegIdle
    /\ BcIdle
    /\ ExtIdle

NextRender == RespondTo

SpecRender == InitRender /\ [][NextRender]_vars

\* Every outbound document: a response being rendered or a broadcast call.
InitOutbound == Called(MaxOutboundRecipients, Acts) \/ InitRender

NextOutbound == Next \/ NextRender

SpecOutbound == InitOutbound /\ [][NextOutbound]_vars

\* The current-thread runtime polls every future that can make progress, and
\* the call's own code runs to its end: no enabled step waits for ever.
\* A peer may also stop answering once it has accepted the connection.
InitLive == Called(MaxLiveRecipients, {Unserializable, ActWithContext})

NextLive == Next \/ \E u \in AllUrls : AttemptStall(u)

SpecLive == InitLive /\ [][NextLive]_vars /\ WF_vars(NextLive)

----------------------------------------------------------------------------
(* Properties                                                              *)

Negotiated == negOut \notin {"pending", "idle"}

\* Number of times rt.spawn was called for destination u.
Attempts(u) == Cardinality({ i \in 1..Len(spawned) : spawned[i] = u })

\* C1 as stated: whenever some trimmed media range of the Accept header is
\* one of the four protocol strings, the outcome is Success, whatever ranges
\* precede it.
C1_ProtocolAnywhere ==
    (Negotiated /\ accept.present
       /\ \E i \in 1..Len(Ranges(accept)) : IsProtocolRange(Ranges(accept)[i]))
    => negOut = "Success"

\* C1 amended: a protocol range yields Success when no earlier trimmed range
\* is exactly text/html; `text/html,application/activity+json` is forwarded.
C1_ProtocolBeforeHtml ==
    /\ (Negotiated /\ accept.present
          /\ \E i \in 1..Len(Ranges(accept)) :
                /\ IsProtocolRange(Ranges(accept)[i])
                /\ \A j \in 1..(i - 1) : ~IsHtmlRange(Ranges(accept)[j]))
       => negOut = "Success"
    /\ (Negotiated /\ accept.present
          /\ accept.toks = <<TextHtml, Comma, "application/activity+json">>)
       => negOut = "Forward(())"

\* A protocol range that had to be trimmed, behind a range that is neither
\* text/html nor a protocol string, was accepted.
C1_Witness ==
    /\ negOut = "Success"
    /\ accept.toks = <<"application/xml", Comma, Space, "application/ld+json">>

\* C2: each destination URL is dispatched to at most once in a call, and when
\* the call returns every well-formed URL of a remote recipient has got
\* exactly one request, however many recipients resolve to it.
C2_OncePerUrl ==
    /\ \A u \in AllUrls : Attempts(u) <= 1 /\ posts[u] <= 1
    /\ pc = "returned" =>
         \A k \in 1..Len(to) :
            (~to[k].local /\ WellFormed(Destination(to[k])))
            => Attempts(Destination(to[k])) = 1 /\ posts[Destination(to[k])] = 1

\* Two recipients with one shared inbox: the call returned after one request.
C2_Witness ==
    /\ pc = "returned"
    /\ \E j, k \in 1..Len(to) :
          /\ j # k
          /\ to[j] # to[k]
          /\ ~to[j].local /\ ~to[k].local
          /\ Destination(to[j]) = Destination(to[k])
          /\ posts[Destination(to[j])] = 1

\* C3 as stated: no request is sent to a URL that only local recipients
\* contribute, in broadcast and in broadcast07.
C3_NoLocalDestination ==
    \A u \in AllUrls :
       posts[u] > 0 => \E k \in 1..Len(to) : ~to[k].local /\ Destination(to[k]) = u

\* C4: a destination that is no URL, has no host or whose host is no header
\* value gets no attempt, the call does not abort on it, and when the call
\* returns every well-formed destination, before or after it, has got exactly
\* one attempt.
C4_SkipIsolated ==
    /\ \A u \in AllUrls : ~WellFormed(u) => Attempts(u) = 0 /\ posts[u] = 0
    /\ (pc = "panicked" /\ panicAt \in {"client", "request signature"})
       => WellFormed(boxes[idx])
    /\ pc = "returned" =>
         \A i \in 1..Len(boxes) :
            IF WellFormed(boxes[i])
            THEN Attempts(boxes[i]) = 1 /\ posts[boxes[i]] = 1
            ELSE <<boxes[i], SkipReason(boxes[i])>> \in skipped

\* A skipped destination between two well-formed ones that both got their
\* request.
C4_Witness ==
    /\ pc = "returned"
    /\ Len(boxes) = 3
    /\ WellFormed(boxes[1]) /\ ~WellFormed(boxes[2]) /\ WellFormed(boxes[3])
    /\ posts[boxes[1]] = 1 /\ posts[boxes[3]] = 1
    /\ Cardinality(skipped) = 1

\* C5 as stated: when the call aborts on a serialization or signature error,
\* the signature error of the k-th destination included, no attempt has been
\* spawned and no request sent.
C5_NothingSpawnedOnAbort ==
    (pc = "panicked" /\ panicAt \in {"serialization", "signature", "request signature"})
    => (spawned = <<>> /\ \A u \in AllUrls : posts[u] = 0)

\* C6 as stated: a transport client that cannot be built never aborts the
\* call.
C6_ClientErrorIsolated ==
    ~(pc = "panicked" /\ panicAt = "client")

\* C7: when the call has returned every attempt it spawned has settled and
\* none changes afterwards; the return value is the unit value.
C7_JoinBeforeReturn ==
    /\ [](pc = "returned" =>
            /\ \A i \in 1..Len(spawned) : att[spawned[i]] \in Settled
            /\ ret = "()")
    /\ [][pc = "returned" => (att' = att /\ posts' = posts /\ logs' = logs)]_vars

\* The call returned after three attempts.
C7_Witness ==
    /\ pc = "returned"
    /\ Len(spawned) = 3
    /\ \A i \in 1..3 : att[spawned[i]] \in Settled

\* C8: a destination gets at most one POST in a call, and an attempt that has
\* settled, as a failure or not, is never started again.
C8_AtMostOnce ==
    /\ [](\A u \in AllUrls : posts[u] <= 1)
    /\ [][\A u \in AllUrls :
             att[u] \in Settled => (att'[u] = att[u] /\ posts'[u] = posts[u])]_vars

\* An attempt timed out, and the call returned with one POST made to it.
C8_Witness ==
    /\ pc = "returned"
    /\ \E u \in AllUrls :
          /\ att[u] = "failed"
          /\ logs[u] = <<"warn: connect timeout">>
          /\ posts[u] = 1

\* C9: while the attempts run, a step of one attempt, a failure included,
\* changes no other attempt and does not abort the call; every attempt that
\* has not settled can still take its next step; the call returns the unit
\* value.
C9_FailureIsolated ==
    /\ [][pc = "run" =>
            /\ pc' \in {"run", "returned"}
            /\ panicAt' = "none"
            /\ \A u \in AllUrls :
                  att'[u] # att[u] => \A v \in AllUrls \ {u} : att'[v] = att[v]]_vars
    /\ [](pc = "run" =>
            \A u \in AllUrls :
               /\ att[u] = "queued" => ENABLED AttemptSend(u)
               /\ att[u] = "sent" => ENABLED AttemptResponse(u)
               /\ att[u] = "responded" => ENABLED AttemptBody(u))
    /\ [](pc = "returned" => ret = "()")

\* One attempt got a non-success status, one failed in transport, one
\* succeeded, and the call returned.
C9_Witness ==
    /\ pc = "returned"
    /\ \E u, v, w \in AllUrls :
          /\ logs[u] = <<"warn: status", "debug: response">>
          /\ logs[v] = <<"warn: transport error">>
          /\ logs[w] = <<"debug: sent", "debug: response">>

\* The names a decoded type declares, as they appear in JSON.
DeclaredNames(ty) ==
    CASE ty = "PublicKey07" -> {"id", "owner", "publicKeyPem"}
      [] ty = "Source" -> {"mediaType", "content"}
      [] ty = "AnyString" -> {"@value", "@language"}
      [] OTHER -> {}

OnlyDeclared(kind, key, v) ==
    \A i \in 1..Len(Claims(kind)) :
       Claims(kind)[i].key = key =>
          \A p \in v.o : p[1] \in DeclaredNames(Claims(kind)[i].ty)

\* C10 as stated: after a successful decompose, compose gives back a bag with
\* the same keys, and every unclaimed key keeps its value.
C10_RoundTrip ==
    xpc = "composed" =>
       /\ DOMAIN bag2 = DOMAIN bag
       /\ \A k \in DOMAIN bag \ ClaimedKeys(extKind) : bag2[k] = bag[k]

\* C10 amended: the keys of the result are those of the bag except claimed
\* keys that held null; unclaimed keys keep their values; a claimed key keeps
\* its value when that value has no field its type does not declare.
C10_RoundTripButNull ==
    xpc = "composed" =>
       /\ DOMAIN bag2 =
             { k \in DOMAIN bag : ~(k \in ClaimedKeys(extKind) /\ bag[k] = JNull) }
       /\ \A k \in DOMAIN bag2 \ ClaimedKeys(extKind) : bag2[k] = bag[k]
       /\ \A k \in DOMAIN bag2 \cap ClaimedKeys(extKind) :
             OnlyDeclared(extKind, k, bag[k]) => bag2[k] = bag[k]

\* A hashtag without href, with a name and an unclaimed key, came back as it
\* was.
C10_Witness ==
    /\ xpc = "composed"
    /\ extKind = "Hashtag07"
    /\ DOMAIN bag = {"name", "type"}
    /\ bag2 = bag

\* The keys the decoded extension writes: its claimed keys whose field is
\* not None.
WrittenKeys ==
    { k \in ClaimedKeys(extKind) : \E p \in ext : p[1] = k /\ p[2].some }

\* C11 as stated: writing an extension into a bag that already holds one of
\* the keys it writes is an error; it never succeeds.
C11_ConflictIsError ==
    xpc = "layered" => WrittenKeys \cap DOMAIN over = {}

\* The JSON shapes a claimed key's type accepts.
RightShape(c, v) ==
    CASE c.ty = "String" -> v.t = "str"
      [] c.ty = "IriString" -> v = JStr(Iri)
      [] c.ty = "AnyString" -> v.t = "str" \/ (v.t = "obj" /\ LangFields \subseteq v.o)
      [] c.ty = "PublicKey07" -> v.t = "obj" /\ PublicKeyFields \subseteq v.o
      [] c.ty = "Source" -> v.t = "obj" /\ SourceFields \subseteq v.o

\* C12: a successful decompose removes exactly the claimed keys and leaves
\* every other key with its value; decompose fails when a required key is
\* absent or has the wrong shape, and then too keeps every unclaimed key; an
\* absent optional key decodes to None.
C12_DecomposeContract ==
    /\ xpc \in {"decoded", "composed", "layered"} =>
         /\ DOMAIN rest = DOMAIN bag \ ClaimedKeys(extKind)
         /\ \A k \in DOMAIN rest : rest[k] = bag[k]
         /\ \A i \in 1..Len(Claims(extKind)) :
               LET c == Claims(extKind)[i]
               IN  /\ c.key \in DOMAIN bag => (RightShape(c, bag[c.key])
                                               \/ (c.opt /\ bag[c.key] = JNull))
                   /\ c.key \notin DOMAIN bag => (c.opt /\ Get(ext, c.key) = None)
    /\ xpc = "error" =>
         /\ \E i \in 1..Len(Claims(extKind)) :
               LET c == Claims(extKind)[i]
               IN  \/ (~c.opt /\ c.key \notin DOMAIN bag)
                   \/ (c.key \in DOMAIN bag /\ ~RightShape(c, bag[c.key])
                         /\ ~(c.opt /\ bag[c.key] = JNull))
         /\ \A k \in DOMAIN bag \ ClaimedKeys(extKind) :
               k \in DOMAIN rest /\ rest[k] = bag[k]
    /\ (xpc \notin {"start", "idle"}
          /\ \E i \in 1..Len(Claims(extKind)) :
                LET c == Claims(extKind)[i]
                IN  ~c.opt /\ (c.key \notin DOMAIN bag \/ ~RightShape(c, bag[c.key])))
       => xpc = "error"

\* A hashtag with a name and no href was decoded: href is None, name and
\* href are gone from the bag and the two unclaimed keys are left.
C12_Witness ==
    /\ xpc = "decoded"
    /\ extKind = "Hashtag07"
    /\ DOMAIN bag = {"name", "type", "summary"}
    /\ DOMAIN rest = {"type", "summary"}
    /\ Get(ext, "href") = None

\* C13: the document of a broadcast call after line 139, and the body of a
\* rendered response, hold the canonical context under @context, whatever
\* the entity held there, and every other key of the entity with its value.
C13_ContextOverwritten ==
    /\ (pc \in {"sign", "loop", "run", "returned"}
          \/ (pc = "panicked" /\ panicAt # "serialization"))
       => /\ doc["@context"] = context
          /\ DOMAIN doc = DOMAIN act.props \cup {"@context"}
          /\ \A k \in DOMAIN act.props \ {"@context"} : doc[k] = act.props[k]
    /\ resp.ok
       => /\ resp.body.json["@context"] = context
          /\ DOMAIN resp.body.json = DOMAIN entity.props \cup {"@context"}
          /\ \A k \in DOMAIN entity.props \ {"@context"} :
                resp.body.json[k] = entity.props[k]

\* A broadcast call went on with an activity that had a context of its own.
C13_Witness ==
    /\ pc = "returned"
    /\ "@context" \in DOMAIN act.props
    /\ act.props["@context"] = OwnContext
    /\ doc["@context"] = context
    /\ Len(spawned) = 1
    /\ posts[spawned[1]] = 1

\* C14: when no trimmed range of the header is a protocol string, the fold
\* ends with Forward(true) if some trimmed range is exactly text/html,
\* wherever it stands, and with Forward(false) otherwise; the request is
\* forwarded, as it is when there is no Accept header.
C14_NoProtocolRange ==
    /\ (Negotiated /\ accept.present
          /\ \A i \in 1..Len(Ranges(accept)) : ~IsProtocolRange(Ranges(accept)[i]))
       => /\ negFold = Forward(\E i \in 1..Len(Ranges(accept)) :
                                   IsHtmlRange(Ranges(accept)[i]))
          /\ negOut = "Forward(())"
    /\ (Negotiated /\ ~accept.present) => negOut = "Forward(())"

\* text/html stood last, behind a range that is neither, and was found.
C14_Witness ==
    /\ negOut = "Forward(())"
    /\ negFold = Forward(TRUE)
    /\ accept.toks = <<"application/xml", Comma, Space, TextHtml>>

NoHeader == [present |-> FALSE, toks |-> <<>>]

\* C15 as stated: the result handed on tells a confident text/html
\* (PassThrough(true)) from an unknown or absent header (PassThrough(false)).
C15_HintCarried ==
    (Negotiated /\ negFold = Forward(TRUE))
    => (negOut # from_request(NoHeader)
        /\ negOut # from_request([present |-> TRUE, toks |-> <<"application/xml">>]))

\* C15 amended: every forwarded result is the same Forward(()), whatever
\* bool the fold ended with; only Success differs from it.
C15_HintDropped ==
    Negotiated =>
       /\ negOut \in {"Success", "Forward(())"}
       /\ negOut = "Success" <=> negFold = Success
       /\ negFold \in {Forward(TRUE), Forward(FALSE), NoFold} => negOut = "Forward(())"

\* A header of text/html alone was forwarded without its bool.
C15_Witness ==
    /\ negFold = Forward(TRUE)
    /\ negOut = "Forward(())"
    /\ accept.toks = <<TextHtml>>

\* The URL the claim assigns to a recipient.
ChosenUrl(a) == IF a.shared = NoUrl THEN a.inbox ELSE a.shared

\* C16: a request goes only to URLs that some recipient is mapped to, its
\* shared inbox if it has one and its own inbox otherwise; a recipient's own
\* inbox gets none when it has a shared inbox, unless another recipient is
\* mapped to that URL; when the call returns each remote recipient's URL, if
\* well-formed, has got one request.
C16_SharedInboxPreferred ==
    /\ \A u \in AllUrls :
          (Attempts(u) > 0 \/ posts[u] > 0)
          => \E k \in 1..Len(to) : ChosenUrl(to[k]) = u
    /\ \A k \in 1..Len(to) :
          (to[k].shared # NoUrl /\ posts[to[k].inbox] > 0)
          => \E j \in 1..Len(to) : ChosenUrl(to[j]) = to[k].inbox
    /\ pc = "returned" =>
          \A k \in 1..Len(to) :
             (~to[k].local /\ WellFormed(ChosenUrl(to[k])))
             => posts[ChosenUrl(to[k])] = 1

\* A recipient with a shared inbox and one without: the first got its
\* request at the shared inbox and none at its own, the second at its own.
C16_Witness ==
    /\ pc = "returned"
    /\ \E j, k \in 1..Len(to) :
          /\ ~to[j].local /\ to[j].shared # NoUrl
          /\ posts[to[j].shared] = 1 /\ posts[to[j].inbox] = 0
          /\ ~to[k].local /\ to[k].shared = NoUrl
          /\ posts[to[k].inbox] = 1

\* C17: encoding a base object and its extension gives one flat property
\* set: the keys of the base with their values, and the extension's keys at
\* the top level, each decoding back to the extension's field.
C17_FlatUnion ==
    xpc = "composed" =>
       /\ DOMAIN bag2 = DOMAIN rest \cup WrittenKeys
       /\ \A k \in DOMAIN rest : bag2[k] = rest[k]
       /\ \A i \in 1..Len(Claims(extKind)) :
             LET c == Claims(extKind)[i]
             IN  c.key \in WrittenKeys =>
                    /\ FromValue(c.opt, c.ty, bag2[c.key]).ok
                    /\ FromValue(c.opt, c.ty, bag2[c.key]).val = Get(ext, c.key)

\* A person's base properties and its publicKey came out side by side.
C17_Witness ==
    /\ xpc = "composed"
    /\ extKind = "ApSignature07"
    /\ DOMAIN rest = {"type", "summary"}
    /\ DOMAIN bag2 = {"type", "summary", "publicKey"}
    /\ bag2["publicKey"] = JObj(PublicKeyFields)

\* C18: an entity that cannot be serialized gives InternalServerError and no
\* body; any other gives the whole document, with the context, under the
\* content type application/activity+json.
C18_RenderAllOrNothing ==
    resp # NoResponse =>
       IF entity.ok
       THEN /\ resp.ok
            /\ resp.ctype = "application/activity+json"
            /\ resp.body.present
            /\ DOMAIN resp.body.json = DOMAIN entity.props \cup {"@context"}
       ELSE /\ ~resp.ok
            /\ resp.status = "InternalServerError"
            /\ ~resp.body.present

\* The entity could not be serialized and no body was produced.
C18_Witness ==
    /\ entity = Unserializable
    /\ resp.status = "InternalServerError"
    /\ resp.body = NoBody

Stalled == \E u \in AllUrls : att[u] = "stalled"

\* C19 as stated: under fairness every call that is past serialization and
\* signing returns, unless a peer that has accepted the connection stops
\* answering; such an attempt stays pending and the call never returns.
C19_ReturnsUnlessStalled ==
    /\ (pc = "loop") ~> (pc = "returned" \/ Stalled)
    /\ (pc = "run") ~> (pc = "returned" \/ Stalled)
    /\ [](pc = "returned" => ~Stalled)
    /\ [][\A u \in AllUrls :
             att[u] = "stalled" => (att'[u] = "stalled" /\ pc' = "run")]_vars

\* C20: for each destination the signature is made before the request is
\* sent and the request is sent before anything of the response is handled;
\* a step of one attempt reads and changes nothing of another; every
\* attempt that can take a step can take it whatever state the others are
\* in; the attempts were spawned in the order of the destination list.
C20_OrderWithinDestination ==
    /\ [](\A u \in AllUrls :
             /\ posts[u] > 0 => sig[u] = [signed |-> TRUE, method |-> "post",
                                          path |-> UrlParse(u).path,
                                          query |-> UrlParse(u).query,
                                          host |-> UrlParse(u).host]
             /\ logs[u] # <<>> => posts[u] = 1
             /\ att[u] \in {"responded", "done"} => logs[u] # <<>>)
    /\ [][\A u \in AllUrls :
             /\ posts'[u] # posts[u] => (sig[u].signed /\ sig'[u] = sig[u]
                                         /\ logs[u] = <<>>)
             /\ logs'[u] # logs[u] => (posts[u] = 1 /\ posts'[u] = 1)
             /\ (pc = "run" /\ (att'[u] # att[u] \/ posts'[u] # posts[u]
                                 \/ logs'[u] # logs[u]))
                => \A v \in AllUrls \ {u} :
                      att'[v] = att[v] /\ posts'[v] = posts[v] /\ logs'[v] = logs[v]]_vars
    /\ [](pc = "run" =>
            \A u \in AllUrls :
               /\ att[u] = "queued" => ENABLED AttemptSend(u)
               /\ att[u] = "sent" => (ENABLED AttemptResponse(u) /\ ENABLED AttemptError(u))
               /\ att[u] = "responded" => ENABLED AttemptBody(u))
    /\ [](pc \in {"run", "returned"} => spawned = SelectSeq(boxes, WellFormed))

\* The destination spawned second has settled while the one spawned first
\* has not been sent yet.
C20_Witness ==
    /\ pc = "run"
    /\ Len(spawned) >= 2
    /\ att[spawned[1]] = "queued"
    /\ att[spawned[2]] = "done"

\* The destinations for which the loop has built a request.
Built == { u \in AllUrls : req[u].built }

\* C21: every request built by one call has the same body, the text of the
\* signed document, and keeps it; its Host header is the host of its own
\* destination, its Digest header is the digest of its own body, and its
\* Signature is made over post, its own path and query and these two
\* headers; a request is built before it is sent, and once built it is
\* changed by no step of its own or of another attempt.
C21_OwnHeadersSharedBody ==
    /\ [](\A u \in Built :
             /\ req[u].body = to_string(SignedDocument(doc))
             /\ \A v \in Built : req[v].body = req[u].body
             /\ req[u].headers.Host = UrlParse(u).host
             /\ req[u].headers.Digest = Digest(req[u].body)
             /\ req[u].signature.over =
                   <<"post", UrlParse(u).path, UrlParse(u).query,
                     req[u].headers.Host, req[u].headers.Digest>>)
    /\ [](\A u \in AllUrls :
             /\ att[u] # "none" => u \in Built
             /\ posts[u] > 0 => u \in Built)
    /\ [][\A u \in Built : req'[u] = req[u]]_vars
    /\ [][doc' # doc => Built = {}]_vars

\* Two destinations on different hosts, one with a query, got their
\* requests: the same body under different Host headers and signatures.
C21_Witness ==
    /\ pc = "returned"
    /\ posts["https://a.example/inbox"] = 1
    /\ posts["https://b.example/u3/inbox?x=1"] = 1
    /\ req["https://a.example/inbox"].body = req["https://b.example/u3/inbox?x=1"].body
    /\ req["https://a.example/inbox"].headers.Host = "a.example"
    /\ req["https://b.example/u3/inbox?x=1"].headers.Host = "b.example"
    /\ req["https://a.example/inbox"].signature
         # req["https://b.example/u3/inbox?x=1"].signature

\* The index of the first range that is text/html or a protocol string, 0
\* if there is none.
FirstDecisive(h) ==
    LET D == { i \in 1..Len(Ranges(h)) :
                 IsProtocolRange(Ranges(h)[i]) \/ IsHtmlRange(Ranges(h)[i]) }
    IN  IF D = {} THEN 0 ELSE CHOOSE i \in D : \A j \in D : i <= j

\* C22: the first trimmed range, in header order, that is text/html or a
\* protocol string fixes the outcome, Forward for text/html and Success for
\* a protocol string, whatever follows it; without such a range, and
\* without a header, the outcome is Forward.
C22_FirstDecisiveWins ==
    /\ (Negotiated /\ accept.present) =>
          LET m == FirstDecisive(accept)
          IN  IF m = 0
              THEN negFold = Forward(FALSE) /\ negOut = "Forward(())"
              ELSE IF IsProtocolRange(Ranges(accept)[m])
              THEN negFold = Success /\ negOut = "Success"
              ELSE negFold = Forward(TRUE) /\ negOut = "Forward(())"
    /\ (Negotiated /\ ~accept.present) => negOut = "Forward(())"

\* A protocol range stood first and text/html behind it: Success, not
\* changed by the later range.
C22_Witness ==
    /\ negOut = "Success"
    /\ accept.toks = <<"application/activity+json", Comma, TextHtml>>

====
